---- MODULE Spec2Model ----
(***************************************************************************)
(* TurfFormModal.jsx: the turf create/edit form.  The state is the         *)
(* component's useState cells, the FileReader reads and HTTP requests in   *)
(* flight, and one record per call of handleSubmit (the values its closure *)
(* captured and what it sent to the collaborators).  Strings the code      *)
(* looks into (trim, length, startsWith, parseFloat, comparison) are       *)
(* sequences of one-character strings; strings it only passes on are atoms.*)
(* env is import.meta.env.VITE_API_URL, imgSrc the <img> of a retained     *)
(* reference as last rendered, and stored the files the upload endpoint    *)
(* has stored, which only SpecStored records.                              *)
(***************************************************************************)
EXTENDS Integers, Sequences, FiniteSets, Bags, TLC

VARIABLES turf, mounted, formData, error, loading, uploadingImages,
          imageFiles, existingImages, imagePreviewUrls, readers,
          subs, network, onSuccessCalled,
          stored, env, imgSrc

vars == <<turf, mounted, formData, error, loading, uploadingImages,
          imageFiles, existingImages, imagePreviewUrls, readers,
          subs, network, onSuccessCalled,
          stored, env, imgSrc>>

(* ---------------------------- bounds ----------------------------------- *)
MaxInFlight == 2
MaxPending == 2
MaxBatch == 2

(* ------------------------- string helpers ------------------------------ *)
Digits == <<"0", "1", "2", "3", "4", "5", "6", "7", "8", "9">>

IsDigit(c) == \E i \in 1..10 : Digits[i] = c

DigitVal(c) == (CHOOSE i \in 1..10 : Digits[i] = c) - 1

\* UTF-16 code units of the characters that occur in a time string
CharCode(c) == IF IsDigit(c) THEN 48 + DigitVal(c) ELSE IF c = ":" THEN 58 ELSE 32

IsSpace(c) == c = " "

RECURSIVE TrimStart(_)
TrimStart(s) == IF s # <<>> /\ IsSpace(Head(s)) THEN TrimStart(Tail(s)) ELSE s

RECURSIVE TrimEnd(_)
TrimEnd(s) ==
    IF s # <<>> /\ IsSpace(s[Len(s)]) THEN TrimEnd(SubSeq(s, 1, Len(s) - 1)) ELSE s

\* String.prototype.trim
Trim(s) == TrimEnd(TrimStart(s))

\* String.prototype.startsWith
StartsWith(s, p) == Len(s) >= Len(p) /\ SubSeq(s, 1, Len(p)) = p

\* a >= b on strings: comparison by code units, a proper prefix being smaller
RECURSIVE StrGeq(_, _)
StrGeq(a, b) ==
    IF b = <<>> THEN TRUE
    ELSE IF a = <<>> THEN FALSE
    ELSE IF CharCode(Head(a)) # CharCode(Head(b)) THEN CharCode(Head(a)) > CharCode(Head(b))
    ELSE StrGeq(Tail(a), Tail(b))

RECURSIVE DigitPrefix(_)
DigitPrefix(s) ==
    IF s # <<>> /\ IsDigit(Head(s)) THEN <<Head(s)>> \o DigitPrefix(Tail(s)) ELSE <<>>

RECURSIVE DigitsValue(_)
DigitsValue(d) ==
    IF d = <<>> THEN 0 ELSE 10 * DigitsValue(SubSeq(d, 1, Len(d) - 1)) + DigitVal(d[Len(d)])

\* parseFloat on strings without exponent: leading blanks, a sign, digits, a
\* fraction; what follows the number is ignored; NaN when there is no digit.
\* The value is (neg ? -1 : 1) * mant / 10^scale.
parseFloat(s) ==
    LET t    == TrimStart(s)
        neg  == t # <<>> /\ Head(t) = "-"
        u    == IF t # <<>> /\ Head(t) \in {"-", "+"} THEN Tail(t) ELSE t
        ip   == DigitPrefix(u)
        r    == SubSeq(u, Len(ip) + 1, Len(u))
        fp   == IF r # <<>> /\ Head(r) = "." THEN DigitPrefix(Tail(r)) ELSE <<>>
    IN  IF ip = <<>> /\ fp = <<>>
        THEN [nan |-> TRUE, neg |-> FALSE, mant |-> 0, scale |-> 0]
        ELSE [nan |-> FALSE, neg |-> neg, mant |-> DigitsValue(ip \o fp), scale |-> Len(fp)]

\* x <= 0 on a parseFloat result (every comparison with NaN is false)
LeqZero(x) == ~x.nan /\ (x.neg \/ x.mant = 0)

(* ----------------------------- files ----------------------------------- *)
\* 10 * 1024 * 1024
MaxFileSize == 10 * 1024 * 1024

ImagePng == <<"i", "m", "a", "g", "e", "/", "p", "n", "g">>
ImageJpeg == <<"i", "m", "a", "g", "e", "/", "j", "p", "e", "g">>
AppPdf == <<"a", "p", "p", "l", "i", "c", "a", "t", "i", "o", "n", "/", "p", "d", "f">>

\* the files of the folder the file chooser shows, in the order it lists them
Folder ==
    << [name |-> "a.png",    type |-> ImagePng,  size |-> 1024],
       [name |-> "b.jpg",    type |-> ImageJpeg, size |-> MaxFileSize],
       [name |-> "big.png",  type |-> ImagePng,  size |-> MaxFileSize + 1],
       [name |-> "doc.pdf",  type |-> AppPdf,    size |-> 2048],
       [name |-> "huge.jpg", type |-> ImageJpeg, size |-> 2 * MaxFileSize],
       [name |-> "scan.pdf", type |-> AppPdf,    size |-> MaxFileSize + 1] >>

Files == {Folder[i] : i \in DOMAIN Folder}

\* the elements of s at the positions in P, in the order of s
RECURSIVE Pick(_, _)
Pick(s, P) ==
    IF s = <<>> THEN <<>>
    ELSE Pick(SubSeq(s, 1, Len(s) - 1), P) \o (IF Len(s) \in P THEN <<s[Len(s)]>> ELSE <<>>)

\* e.target.files of one change event of the file input: the files ticked in
\* the chooser, in the order it lists them
Batches ==
    {Pick(Folder, P) : P \in {Q \in SUBSET DOMAIN Folder : Cardinality(Q) \in 1..MaxBatch}}

\* prev.filter((_, i) => i !== index), index counted from 0
RemoveAt(s, index) ==
    [j \in 1..(Len(s) - (IF index + 1 \in 1..Len(s) THEN 1 ELSE 0)) |->
        IF j < index + 1 THEN s[j] ELSE s[j + 1]]

Names(s) == [i \in 1..Len(s) |-> s[i].name]

(* ----------------------------- errors ---------------------------------- *)
\* a message is its fixed text and the values spliced into it
Msg(text, args) == [text |-> text, args |-> args]

NoError == Msg("", <<>>)

(* --------------------------- form fields ------------------------------- *)
Str10 == <<"9", "8", "7", "6", "5", "4", "3", "2", "1", "0">>
T0600 == <<"0", "6", ":", "0", "0">>
T2200 == <<"2", "2", ":", "0", "0">>

\* useState initial value of formData
DefaultFormData ==
    [name |-> <<>>, phone |-> <<>>, location |-> <<>>, type |-> "FOOTBALL",
     pricePerSlot |-> <<>>, description |-> "",
     operatingStartTime |-> T0600, operatingEndTime |-> T2200]

\* the values e.target.value takes, per e.target.name
FieldValues ==
    [name               |-> {<<" ", "A", "1">>},
     phone              |-> {Str10},
     location           |-> {<<"C", "b", "e">>},
     pricePerSlot       |-> {<<"5", "0", "0">>},
     operatingStartTime |-> {T2200}]

FieldNames == DOMAIN FieldValues

(* ------------------------------ props ---------------------------------- *)
\* user.userId of useAuth()
UserId == "owner-7"

NoTurf ==
    [null |-> TRUE, id |-> 0, name |-> <<>>, phone |-> <<>>, location |-> <<>>,
     type |-> "", pricePerSlot |-> <<>>, description |-> "",
     operatingStartTime |-> <<>>, operatingEndTime |-> <<>>, imageUrls |-> <<>>]

\* the turf prop: null (create) or the entity being edited
Turfs ==
    { NoTurf,
      [null |-> FALSE, id |-> 11, name |-> <<"A", "1">>, phone |-> Str10,
       location |-> <<"C", "b", "e">>, type |-> "CRICKET",
       pricePerSlot |-> <<"5", "0", "0">>, description |-> "",
       operatingStartTime |-> T0600, operatingEndTime |-> T2200,
       imageUrls |-> <<"/api/files/x.png", "y.png">>],
      [null |-> FALSE, id |-> 12, name |-> <<"B">>, phone |-> Str10,
       location |-> <<"C", "b", "e">>, type |-> "",
       pricePerSlot |-> <<"8", "0">>, description |-> "Indoor",
       operatingStartTime |-> <<>>, operatingEndTime |-> <<>>,
       imageUrls |-> <<>>] }

\* x || d on the strings the code looks into ('' is falsy)
OrElse(x, d) == IF x = <<>> THEN d ELSE x

\* x || d on the strings the code only passes on
OrElseAtom(x, d) == IF x = "" THEN d ELSE x

(* ---------------------------- validation ------------------------------- *)
\* !formData.name.trim()
EmptyName(fd) == Trim(fd.name) = <<>>

\* formData.phone.length < 10
PhoneTooShort(fd) == Len(fd.phone) < 10

\* !formData.location.trim()
EmptyLocation(fd) == Trim(fd.location) = <<>>

\* !formData.pricePerSlot || parseFloat(formData.pricePerSlot) <= 0
InvalidPrice(fd) == fd.pricePerSlot = <<>> \/ LeqZero(parseFloat(fd.pricePerSlot))

\* formData.operatingStartTime >= formData.operatingEndTime
InvalidTimeRange(fd) == StrGeq(fd.operatingStartTime, fd.operatingEndTime)

\* the phone rule looked at before the name rule
ValidationError_phoneFirst(fd) ==
    IF PhoneTooShort(fd) THEN Msg("Phone number must be at least 10 digits", <<>>)
    ELSE IF EmptyName(fd) THEN Msg("Turf name is required", <<>>)
    ELSE IF EmptyLocation(fd) THEN Msg("Location is required", <<>>)
    ELSE IF InvalidPrice(fd) THEN Msg("Valid price is required", <<>>)
    ELSE IF InvalidTimeRange(fd) THEN Msg("End time must be after start time", <<>>)
    ELSE NoError

\* the message validateForm hands to setError, NoError when every rule passes
ValidationError(fd) ==
    IF EmptyName(fd) THEN Msg("Turf name is required", <<>>)
    ELSE IF PhoneTooShort(fd) THEN Msg("Phone number must be at least 10 digits", <<>>)
    ELSE IF EmptyLocation(fd) THEN Msg("Location is required", <<>>)
    ELSE IF InvalidPrice(fd) THEN Msg("Valid price is required", <<>>)
    ELSE IF InvalidTimeRange(fd) THEN Msg("End time must be after start time", <<>>)
    ELSE NoError

\* the price rule left out
validateForm_skipsPrice(fd) ==
    ~EmptyName(fd) /\ ~PhoneTooShort(fd) /\ ~EmptyLocation(fd) /\ ~InvalidTimeRange(fd)

validateForm(fd) == ValidationError(fd) = NoError

(* ------------------------- image selection ----------------------------- *)
IsImage(file) == StartsWith(file.type, <<"i", "m", "a", "g", "e", "/">>)

\* the limit written as 100 MB
IsOversized_wrongLimit(file) == file.size > 100 * 1024 * 1024

IsOversized(file) == file.size > MaxFileSize

\* the result of the filter not used
ValidFiles_unfiltered(files) == files

\* files.filter(file => file.type.startsWith('image/'))
ValidFiles(files) == SelectSeq(files, IsImage)

\* validFiles.filter(file => file.size > 10 * 1024 * 1024)
OversizedFiles(files) == SelectSeq(ValidFiles(files), IsOversized)

NotImageFiles(files) == SelectSeq(files, LAMBDA f : ~IsImage(f))

\* the setError calls of the filter callback, one per rejected file, in order
TypeFilterWarnings(files) ==
    [i \in 1..Len(NotImageFiles(files)) |->
        Msg("${name} is not a valid image file", <<NotImageFiles(files)[i].name>>)]

\* the error cell once the filter callback ran over the batch: of the calls it
\* made the last is the one that stays
ErrorAfterTypeFilter(files, before) ==
    LET warnings == TypeFilterWarnings(files)
    IN  IF warnings = <<>> THEN before ELSE warnings[Len(warnings)]

\* whether handleImageSelect takes the early return of the size check
RejectsBatch(files) == Len(OversizedFiles(files)) > 0

AppendFiles_inFront(prev, validFiles) == validFiles \o prev

\* [...prev, ...validFiles]
AppendFiles(prev, validFiles) == prev \o validFiles

\* reader.result of readAsDataURL(file)
DataUrl(file) == <<"data:", file.type, file.name>>

RECURSIVE SeqToBag(_)
SeqToBag(s) == IF s = <<>> THEN EmptyBag ELSE SetToBag({Head(s)}) (+) SeqToBag(Tail(s))

ControlsDisabled_uploadingOnly == uploadingImages

\* disabled={loading || uploadingImages} of the file input and of the submit button
ControlsDisabled == loading \/ uploadingImages

\* disabled={loading} of the two remove buttons
RemoveDisabled == loading

handleImageSelect(files) ==
    /\ mounted /\ ~ControlsDisabled
    /\ RejectsBatch(files) \/ Len(imageFiles) + Len(ValidFiles(files)) <= MaxPending
    /\ IF RejectsBatch(files)
       THEN /\ error' = Msg("Some files exceed 10MB limit: ${names}", Names(OversizedFiles(files)))
            /\ UNCHANGED <<imageFiles, readers>>
       ELSE /\ error' = ErrorAfterTypeFilter(files, error)
            /\ imageFiles' = AppendFiles(imageFiles, ValidFiles(files))
            /\ readers' = readers (+) SeqToBag(ValidFiles(files))
    /\ UNCHANGED <<turf, mounted, formData, loading, uploadingImages, existingImages,
                   imagePreviewUrls, subs, network, onSuccessCalled, stored, env, imgSrc>>

\* reader.onloadend of one of the reads in flight
PreviewLoaded(file) ==
    /\ BagIn(file, readers)
    /\ readers' = readers (-) SetToBag({file})
    /\ imagePreviewUrls' = Append(imagePreviewUrls, DataUrl(file))
    /\ UNCHANGED <<turf, mounted, formData, error, loading, uploadingImages, imageFiles,
                   existingImages, subs, network, onSuccessCalled, stored, env, imgSrc>>

\* the remove button of the preview at `index` (0-based)
removeNewImage(index) ==
    /\ mounted /\ ~RemoveDisabled
    /\ index + 1 \in 1..Len(imagePreviewUrls)
    /\ imageFiles' = RemoveAt(imageFiles, index)
    /\ imagePreviewUrls' = RemoveAt(imagePreviewUrls, index)
    /\ UNCHANGED <<turf, mounted, formData, error, loading, uploadingImages,
                   existingImages, readers, subs, network, onSuccessCalled, stored, env, imgSrc>>

removeExistingImage(index) ==
    /\ mounted /\ ~RemoveDisabled
    /\ index + 1 \in 1..Len(existingImages)
    /\ existingImages' = RemoveAt(existingImages, index)
    /\ UNCHANGED <<turf, mounted, formData, error, loading, uploadingImages,
                   imageFiles, imagePreviewUrls, readers, subs, network, onSuccessCalled, stored, env, imgSrc>>

(* --------------------------- mount, edits ------------------------------ *)
\* the effect without its setExistingImages call
TurfEffect_noImages ==
    /\ ~mounted
    /\ mounted' = TRUE
    /\ formData' =
         IF turf.null THEN formData
         ELSE [name |-> OrElse(turf.name, <<>>),
               phone |-> OrElse(turf.phone, <<>>),
               location |-> OrElse(turf.location, <<>>),
               type |-> OrElseAtom(turf.type, "FOOTBALL"),
               pricePerSlot |-> OrElse(turf.pricePerSlot, <<>>),
               description |-> OrElseAtom(turf.description, ""),
               operatingStartTime |-> OrElse(turf.operatingStartTime, T0600),
               operatingEndTime |-> OrElse(turf.operatingEndTime, T2200)]
    /\ UNCHANGED <<turf, error, loading, uploadingImages, imageFiles, existingImages,
                   imagePreviewUrls, readers, subs, network, onSuccessCalled,
                   stored, env, imgSrc>>

\* useEffect(..., [turf]) after the first render
TurfEffect ==
    /\ ~mounted
    /\ mounted' = TRUE
    /\ formData' =
         IF turf.null THEN formData
         ELSE [name |-> OrElse(turf.name, <<>>),
               phone |-> OrElse(turf.phone, <<>>),
               location |-> OrElse(turf.location, <<>>),
               type |-> OrElseAtom(turf.type, "FOOTBALL"),
               pricePerSlot |-> OrElse(turf.pricePerSlot, <<>>),
               description |-> OrElseAtom(turf.description, ""),
               operatingStartTime |-> OrElse(turf.operatingStartTime, T0600),
               operatingEndTime |-> OrElse(turf.operatingEndTime, T2200)]
    /\ existingImages' =
         IF ~turf.null /\ Len(turf.imageUrls) > 0 THEN turf.imageUrls ELSE existingImages
    /\ UNCHANGED <<turf, error, loading, uploadingImages, imageFiles, imagePreviewUrls,
                   readers, subs, network, onSuccessCalled, stored, env, imgSrc>>

handleChange(field, value) ==
    /\ mounted
    /\ formData' = [formData EXCEPT ![field] = value]
    /\ error' = NoError
    /\ UNCHANGED <<turf, mounted, loading, uploadingImages, imageFiles, existingImages,
                   imagePreviewUrls, readers, subs, network, onSuccessCalled, stored, env, imgSrc>>

(* ---------------------------- submission ------------------------------- *)
\* fileUrl the upload endpoint answers for a stored file
StoredUrl(file) == <<"/api/files/", file.name>>

Reverse(s) == [i \in 1..Len(s) |-> s[Len(s) + 1 - i]]

\* response.data.files.map(file => file.fileUrl): one entry per file of the
\* batch, in the order the endpoint chose
UploadResponses(batch) ==
    LET inOrder == [i \in 1..Len(batch) |-> StoredUrl(batch[i])]
    IN  {inOrder, Reverse(inOrder)}

\* what a rejected api.post carries: err.response?.data?.error ("" when absent)
\* and err.message
UploadErrors ==
    { [responseError |-> "File type not allowed", message |-> "Request failed with status code 400"],
      [responseError |-> "", message |-> "Network Error"] }

\* what a rejected turfService call carries
SaveErrors == { [message |-> "Request failed with status code 500"], [message |-> ""] }

NeedsUpload_always(files) == TRUE

\* uploadImages goes on to post unless imageFiles.length === 0
NeedsUpload(files) == Len(files) # 0

UploadBatch_firstOnly(files) == SubSeq(files, 1, 1)

\* imageFiles.forEach(file => formDataUpload.append('files', file))
UploadBatch(files) == files

AllImageUrls_newFirst(existing, newImageUrls) == newImageUrls \o existing

\* [...existingImages, ...newImageUrls]
AllImageUrls(existing, newImageUrls) == existing \o newImageUrls

\* the call made on turfService: updateTurf(turf.id, {...formData, imageUrls})
\* when editing, createTurf({...formData, ownerId, imageUrls}) otherwise
SaveCall(fd, allImageUrls) ==
    IF ~turf.null
    THEN [op |-> "updateTurf", id |-> turf.id,
          data |-> [fields |-> fd, imageUrls |-> allImageUrls]]
    ELSE [op |-> "createTurf",
          data |-> [fields |-> fd, ownerId |-> UserId, imageUrls |-> allImageUrls]]

\* one call of handleSubmit that has not returned yet: the values its closure
\* holds and what it has sent so far
NewSub(id, fd, existing, files) ==
    [id |-> id, formData |-> fd, existingImages |-> existing, imageFiles |-> files,
     uploads |-> <<>>, response |-> <<>>, saves |-> <<>>]

\* the save call made without waiting for the upload
StartedSub_parallel(id, fd, existing, files) ==
    [NewSub(id, fd, existing, files) EXCEPT
        !.uploads = IF NeedsUpload(files) THEN <<UploadBatch(files)>> ELSE <<>>,
        !.saves = <<SaveCall(fd, AllImageUrls(existing, <<>>))>>]

\* handleSubmit up to its first wait on the network
StartedSub(id, fd, existing, files) ==
    IF NeedsUpload(files)
    THEN [NewSub(id, fd, existing, files) EXCEPT !.uploads = <<UploadBatch(files)>>]
    ELSE [NewSub(id, fd, existing, files) EXCEPT
             !.saves = <<SaveCall(fd, AllImageUrls(existing, <<>>))>>]

\* the requests a call has in flight, given what it has sent and not yet heard of
Dispatched(sub) ==
    {[sub |-> sub.id, kind |-> "upload"] : x \in {1} \cap 1..Len(sub.uploads)}
        \cup {[sub |-> sub.id, kind |-> "save"] : x \in {1} \cap 1..Len(sub.saves)}

FreeId == CHOOSE i \in 1..MaxInFlight : \A c \in subs : c.id # i

handleSubmit ==
    /\ mounted /\ ~ControlsDisabled
    /\ Cardinality(subs) < MaxInFlight
    /\ IF ~validateForm(formData)
       THEN /\ error' = ValidationError(formData)
            /\ UNCHANGED <<loading, uploadingImages, subs, network>>
       ELSE LET sub == StartedSub(FreeId, formData, existingImages, imageFiles)
            IN  /\ error' = NoError
                /\ loading' = TRUE
                /\ uploadingImages' = IF Len(sub.uploads) > 0 THEN TRUE ELSE uploadingImages
                /\ subs' = subs \cup {sub}
                /\ network' = network \cup Dispatched(sub)
    /\ UNCHANGED <<turf, mounted, formData, imageFiles, existingImages,
                   imagePreviewUrls, readers, onSuccessCalled, stored, env, imgSrc>>

\* the answers the endpoint can give to the batch a call posted
PossibleResponses(sub) ==
    IF sub.uploads = <<>> THEN {} ELSE UploadResponses(sub.uploads[Len(sub.uploads)])

\* the pending list emptied once its files are uploaded
UploadResolved_clearsPending(sub, urls) ==
    /\ [sub |-> sub.id, kind |-> "upload"] \in network
    /\ urls \in PossibleResponses(sub)
    /\ uploadingImages' = FALSE
    /\ imageFiles' = <<>>
    /\ subs' = (subs \ {sub}) \cup
                 {[sub EXCEPT !.response = urls,
                              !.saves = Append(@, SaveCall(sub.formData,
                                            AllImageUrls(sub.existingImages, urls)))]}
    /\ network' = (network \ {[sub |-> sub.id, kind |-> "upload"]})
                      \cup {[sub |-> sub.id, kind |-> "save"]}
    /\ UNCHANGED <<turf, mounted, formData, error, loading, existingImages,
                   imagePreviewUrls, readers, onSuccessCalled, env, imgSrc>>

\* api.post('/files/upload-multiple') resolves: uploadImages returns the urls
\* (its finally clears uploadingImages) and handleSubmit goes on to the save call
UploadResolved(sub, urls) ==
    /\ [sub |-> sub.id, kind |-> "upload"] \in network
    /\ urls \in PossibleResponses(sub)
    /\ uploadingImages' = FALSE
    /\ subs' = (subs \ {sub}) \cup
                 {[sub EXCEPT !.response = urls,
                              !.saves = Append(@, SaveCall(sub.formData,
                                            AllImageUrls(sub.existingImages, urls)))]}
    /\ network' = (network \ {[sub |-> sub.id, kind |-> "upload"]})
                      \cup {[sub |-> sub.id, kind |-> "save"]}
    /\ UNCHANGED <<turf, mounted, formData, error, loading, imageFiles, existingImages,
                   imagePreviewUrls, readers, onSuccessCalled, env, imgSrc>>

\* uploadImages answering [] from its catch instead of throwing
UploadRejected_swallowed(sub, err) ==
    /\ [sub |-> sub.id, kind |-> "upload"] \in network
    /\ uploadingImages' = FALSE
    /\ subs' = (subs \ {sub}) \cup
                 {[sub EXCEPT !.saves = Append(@, SaveCall(sub.formData,
                                            AllImageUrls(sub.existingImages, <<>>)))]}
    /\ network' = (network \ {[sub |-> sub.id, kind |-> "upload"]})
                      \cup {[sub |-> sub.id, kind |-> "save"]}
    /\ UNCHANGED <<turf, mounted, formData, error, loading, imageFiles, existingImages,
                   imagePreviewUrls, readers, onSuccessCalled, stored, env, imgSrc>>

\* api.post rejects: uploadImages throws 'Failed to upload images: ' + cause,
\* handleSubmit's catch shows err.message, its finally clears loading
UploadRejected(sub, err) ==
    /\ [sub |-> sub.id, kind |-> "upload"] \in network
    /\ uploadingImages' = FALSE
    /\ error' = Msg("Failed to upload images: ${cause}",
                    <<OrElseAtom(err.responseError, err.message)>>)
    /\ loading' = FALSE
    /\ subs' = subs \ {sub}
    /\ network' = network \ {[sub |-> sub.id, kind |-> "upload"]}
    /\ UNCHANGED <<turf, mounted, formData, imageFiles, existingImages,
                   imagePreviewUrls, readers, onSuccessCalled, stored, env, imgSrc>>

\* setLoading(false) written at the end of the catch and not in a finally
SaveResolved_noFinally(sub) ==
    /\ [sub |-> sub.id, kind |-> "save"] \in network
    /\ subs' = subs \ {sub}
    /\ onSuccessCalled' = TRUE
    /\ network' = network \ {[sub |-> sub.id, kind |-> "save"]}
    /\ UNCHANGED <<turf, mounted, formData, error, loading, uploadingImages, imageFiles,
                   existingImages, imagePreviewUrls, readers, stored, env, imgSrc>>

\* turfService.createTurf / updateTurf resolves: alert, onSuccess(), finally
SaveResolved(sub) ==
    /\ [sub |-> sub.id, kind |-> "save"] \in network
    /\ subs' = subs \ {sub}
    /\ onSuccessCalled' = TRUE
    /\ loading' = FALSE
    /\ network' = network \ {[sub |-> sub.id, kind |-> "save"]}
    /\ UNCHANGED <<turf, mounted, formData, error, uploadingImages, imageFiles,
                   existingImages, imagePreviewUrls, readers, stored, env, imgSrc>>

\* onSuccess() called once the turfService call has settled, whichever way
SaveRejected_signals(sub, err) ==
    /\ [sub |-> sub.id, kind |-> "save"] \in network
    /\ error' = Msg(OrElseAtom(err.message, "Failed to save turf. Please try again."), <<>>)
    /\ subs' = subs \ {sub}
    /\ onSuccessCalled' = TRUE
    /\ loading' = FALSE
    /\ network' = network \ {[sub |-> sub.id, kind |-> "save"]}
    /\ UNCHANGED <<turf, mounted, formData, uploadingImages, imageFiles,
                   existingImages, imagePreviewUrls, readers, stored, env, imgSrc>>

\* turfService call rejects: catch shows err.message || the fallback, finally
SaveRejected(sub, err) ==
    /\ [sub |-> sub.id, kind |-> "save"] \in network
    /\ error' = Msg(OrElseAtom(err.message, "Failed to save turf. Please try again."), <<>>)
    /\ subs' = subs \ {sub}
    /\ loading' = FALSE
    /\ network' = network \ {[sub |-> sub.id, kind |-> "save"]}
    /\ UNCHANGED <<turf, mounted, formData, uploadingImages, imageFiles,
                   existingImages, imagePreviewUrls, readers, onSuccessCalled, stored, env, imgSrc>>

(* ----------------------------- image grid ------------------------------ *)
\* const totalImages = existingImages.length + imageFiles.length
totalImages == Len(existingImages) + Len(imageFiles)

\* existingImages.map((url, index) => ...): the badge is rendered for index === 0
ExistingCells ==
    [i \in 1..Len(existingImages) |->
        [list |-> "existing", index |-> i - 1,
         badge |-> IF i - 1 = 0 THEN "Primary" ELSE ""]]

\* imagePreviewUrls.map((url, index) => ...): every cell carries the badge New
PreviewCells ==
    [i \in 1..Len(imagePreviewUrls) |-> [list |-> "new", index |-> i - 1, badge |-> "New"]]

\* the cells of the grid in the order they are rendered
ImageGrid == ExistingCells \o PreviewCells

(* ------------------------ image references ----------------------------- *)
\* import.meta.env.VITE_API_URL when the build does not set it (undefined)
NoEnv == <<>>

\* 'http://localhost:8080/api'
DefaultApiUrl ==
    <<"h", "t", "t", "p", ":", "/", "/", "l", "o", "c", "a", "l", "h", "o", "s", "t",
      ":", "8", "0", "8", "0", "/", "a", "p", "i">>

\* const API_URL = import.meta.env.VITE_API_URL || 'http://localhost:8080/api'
API_URL == OrElse(env, DefaultApiUrl)

\* the literal `http://localhost:8080` of the two template strings of getImageUrl
LocalHost8080 ==
    <<"h", "t", "t", "p", ":", "/", "/", "l", "o", "c", "a", "l", "h", "o", "s", "t",
      ":", "8", "0", "8", "0">>

Http == <<"h", "t", "t", "p", ":", "/", "/">>
Https == <<"h", "t", "t", "p", "s", ":", "/", "/">>
ApiPrefix == <<"/", "a", "p", "i">>
ApiFiles == <<"/", "a", "p", "i", "/", "f", "i", "l", "e", "s", "/">>

\* what getImageUrl returns: null or a string
NullUrl == [null |-> TRUE, url |-> <<>>]
Url(u) == [null |-> FALSE, url |-> u]

\* the rule for '/api...' applied to every reference that is not absolute
getImageUrl_allUnderHost(imageUrl) ==
    IF imageUrl = <<>> THEN NullUrl
    ELSE IF StartsWith(imageUrl, Http) \/ StartsWith(imageUrl, Https) THEN Url(imageUrl)
    ELSE Url(LocalHost8080 \o imageUrl)

getImageUrl(imageUrl) ==
    IF imageUrl = <<>> THEN NullUrl
    ELSE IF StartsWith(imageUrl, Http) \/ StartsWith(imageUrl, Https) THEN Url(imageUrl)
    ELSE IF StartsWith(imageUrl, ApiPrefix) THEN Url(LocalHost8080 \o imageUrl)
    ELSE Url(LocalHost8080 \o ApiFiles \o imageUrl)

\* imgSrc before any <img> of a retained reference was rendered
NotRendered == [rendered |-> FALSE, ref |-> <<>>, src |-> NullUrl]

\* <img src={getImageUrl(url)} /> of existingImages.map, for the reference at
\* `index` (0-based)
RenderExistingImage(index) ==
    /\ mounted
    /\ index + 1 \in 1..Len(existingImages)
    /\ imgSrc' = [rendered |-> TRUE, ref |-> existingImages[index + 1],
                  src |-> getImageUrl(existingImages[index + 1])]
    /\ UNCHANGED <<turf, mounted, formData, error, loading, uploadingImages, imageFiles,
                   existingImages, imagePreviewUrls, readers, subs, network,
                   onSuccessCalled, stored, env>>

(* -------------------------- specification ------------------------------ *)
Init ==
    /\ turf \in Turfs
    /\ mounted = FALSE
    /\ formData = DefaultFormData
    /\ error = NoError
    /\ loading = FALSE
    /\ uploadingImages = FALSE
    /\ imageFiles = <<>>
    /\ existingImages = <<>>
    /\ imagePreviewUrls = <<>>
    /\ readers = EmptyBag
    /\ subs = {}
    /\ network = {}
    /\ onSuccessCalled = FALSE
    /\ stored = {}
    /\ env = NoEnv
    /\ imgSrc = NotRendered

Next ==
    \/ TurfEffect
    \/ \E field \in FieldNames : \E value \in FieldValues[field] : handleChange(field, value)
    \/ \E files \in Batches : handleImageSelect(files)
    \/ \E file \in Files : PreviewLoaded(file)
    \/ \E index \in 0..(Len(imagePreviewUrls) - 1) : removeNewImage(index)
    \/ \E index \in 0..(Len(existingImages) - 1) : removeExistingImage(index)
    \/ handleSubmit
    \/ \E sub \in subs : \E urls \in PossibleResponses(sub) :
          UploadResolved(sub, urls) /\ UNCHANGED stored
    \/ \E sub \in subs : \E err \in UploadErrors : UploadRejected(sub, err)
    \/ \E sub \in subs : SaveResolved(sub)
    \/ \E sub \in subs : \E err \in SaveErrors : SaveRejected(sub, err)

Spec == Init /\ [][Next]_vars

(* ------------------- every request is answered ------------------------ *)
\* the upload endpoint answers a request it was sent
AnswerUpload ==
    \E sub \in subs :
        \/ \E urls \in PossibleResponses(sub) : UploadResolved(sub, urls) /\ UNCHANGED stored
        \/ \E err \in UploadErrors : UploadRejected(sub, err)

\* the turf service answers a request it was sent
AnswerSave ==
    \E sub \in subs :
        \/ SaveResolved(sub)
        \/ \E err \in SaveErrors : SaveRejected(sub, err)

\* the form with a network that leaves no request unanswered
SpecFair == Init /\ [][Next]_vars /\ WF_vars(AnswerUpload) /\ WF_vars(AnswerSave)

(* ------------- the form and what the upload endpoint holds ------------- *)
\* the files of a batch
StoredFiles(batch) == {batch[i] : i \in DOMAIN batch}

\* the endpoint answers a batch with urls: it has stored the files of the batch
UploadStored(sub, urls) ==
    /\ UploadResolved(sub, urls)
    /\ stored' = stored \cup StoredFiles(sub.uploads[Len(sub.uploads)])

\* Next with the files the endpoint has stored recorded in `stored`
NextStored ==
    \/ TurfEffect
    \/ \E field \in FieldNames : \E value \in FieldValues[field] : handleChange(field, value)
    \/ \E files \in Batches : handleImageSelect(files)
    \/ \E file \in Files : PreviewLoaded(file)
    \/ \E index \in 0..(Len(imagePreviewUrls) - 1) : removeNewImage(index)
    \/ \E index \in 0..(Len(existingImages) - 1) : removeExistingImage(index)
    \/ handleSubmit
    \/ \E sub \in subs : \E urls \in PossibleResponses(sub) : UploadStored(sub, urls)
    \/ \E sub \in subs : \E err \in UploadErrors : UploadRejected(sub, err)
    \/ \E sub \in subs : SaveResolved(sub)
    \/ \E sub \in subs : \E err \in SaveErrors : SaveRejected(sub, err)

SpecStored == Init /\ [][NextStored]_vars

(* ------------------ the form with its fields left alone ---------------- *)
\* every event but the edits of the text fields: the image handlers neither
\* read nor write formData
NextImages ==
    \/ TurfEffect
    \/ \E files \in Batches : handleImageSelect(files)
    \/ \E file \in Files : PreviewLoaded(file)
    \/ \E index \in 0..(Len(imagePreviewUrls) - 1) : removeNewImage(index)
    \/ \E index \in 0..(Len(existingImages) - 1) : removeExistingImage(index)
    \/ handleSubmit
    \/ \E sub \in subs : \E urls \in PossibleResponses(sub) :
          UploadResolved(sub, urls) /\ UNCHANGED stored
    \/ \E sub \in subs : \E err \in UploadErrors : UploadRejected(sub, err)
    \/ \E sub \in subs : SaveResolved(sub)
    \/ \E sub \in subs : \E err \in SaveErrors : SaveRejected(sub, err)

SpecImages == Init /\ [][NextImages]_vars

(* ------------------- validation over typed-in forms -------------------- *)
\* the values formData can hold when handleSubmit runs in create mode: what
\* handleChange stored from e.target.value, on which it puts no restriction
FormInputs ==
    [name               : {<<>>, <<" ", " ">>, <<" ", "A", "1">>},
     phone              : {<<"9", "8", "7", "6", "5", "4", "3", "2", "1">>, Str10},
     location           : {<<" ">>, <<"C", "b", "e">>},
     type               : {"FOOTBALL"},
     pricePerSlot       : {<<>>, <<"0">>, <<"-", "5">>, <<"0", ".", "0", "0">>,
                           <<"a", "b", "c">>, <<"0", ".", "5">>, <<"5", "0", "0">>},
     description        : {""},
     operatingStartTime : {T0600, T2200},
     operatingEndTime   : {T0600, T2200}]

InitValidate ==
    /\ turf = NoTurf
    /\ mounted = TRUE
    /\ formData \in FormInputs
    /\ error = NoError
    /\ loading = FALSE
    /\ uploadingImages = FALSE
    /\ imageFiles = <<>>
    /\ existingImages = <<>>
    /\ imagePreviewUrls = <<>>
    /\ readers = EmptyBag
    /\ subs = {}
    /\ network = {}
    /\ onSuccessCalled = FALSE
    /\ stored = {}
    /\ env = NoEnv
    /\ imgSrc = NotRendered

NextValidate == handleSubmit

SpecValidate == InitValidate /\ [][NextValidate]_vars

(* ------------- the grid over references spelled out in full ------------ *)
\* how a stored reference can begin, and how it can go on
RefHeads ==
    { <<>>, Http, Https, ApiPrefix, ApiFiles,
      <<"H", "T", "T", "P", ":", "/", "/">>, <<"/", "a", "p">>,
      <<"a", "p", "i", "/">>, <<"f", "t", "p", ":", "/", "/">>, <<"/">> }

RefTails ==
    { <<>>, <<"z", ".", "p", "n", "g">>, <<"x", "/", "y", ".", "p", "n", "g">>,
      <<"/", "a", "p", "i", "/", "q">> }

\* turf.imageUrls entries as the backend can have stored them
References == {h \o t : h \in RefHeads, t \in RefTails}

\* values of VITE_API_URL: unset, the default spelled out, another deployment
Envs ==
    { NoEnv, DefaultApiUrl,
      <<"h", "t", "t", "p", "s", ":", "/", "/", "t", ".", "c", "o", "/", "a", "p", "i">> }

\* the form opened on a turf with one stored reference, after its effect ran
InitResolve ==
    /\ \E ref \in References :
          turf = [null |-> FALSE, id |-> 13, name |-> <<"B">>, phone |-> Str10,
                  location |-> <<"C", "b", "e">>, type |-> "CRICKET",
                  pricePerSlot |-> <<"8", "0">>, description |-> "",
                  operatingStartTime |-> T0600, operatingEndTime |-> T2200,
                  imageUrls |-> <<ref>>]
    /\ mounted = TRUE
    /\ formData = [name |-> turf.name, phone |-> turf.phone, location |-> turf.location,
                   type |-> turf.type, pricePerSlot |-> turf.pricePerSlot,
                   description |-> turf.description,
                   operatingStartTime |-> turf.operatingStartTime,
                   operatingEndTime |-> turf.operatingEndTime]
    /\ error = NoError
    /\ loading = FALSE
    /\ uploadingImages = FALSE
    /\ imageFiles = <<>>
    /\ existingImages = turf.imageUrls
    /\ imagePreviewUrls = <<>>
    /\ readers = EmptyBag
    /\ subs = {}
    /\ network = {}
    /\ onSuccessCalled = FALSE
    /\ stored = {}
    /\ env \in Envs
    /\ imgSrc = NotRendered

NextResolve == \E index \in 0..(Len(existingImages) - 1) : RenderExistingImage(index)

SpecResolve == InitResolve /\ [][NextResolve]_vars

(* ------------------------------ claims --------------------------------- *)
UploadInFlight(sub) == [sub |-> sub.id, kind |-> "upload"] \in network

SaveInFlight(sub) == [sub |-> sub.id, kind |-> "save"] \in network

\* C1: every call of handleSubmit that has reached the save step sent exactly
\* one create/update call whose image list is the retained references, as they
\* stand in the component, followed by the references the upload endpoint
\* returned, in the order it returned them; with P > 0 pending files it posted
\* exactly one upload, a batch holding all P pending files in order.
C1_SavePayloadImages ==
    \A sub \in subs :
        sub.saves # <<>> =>
            /\ Len(sub.saves) = 1
            /\ sub.saves[1].data.imageUrls = existingImages \o sub.response
            /\ Len(sub.response) = Len(imageFiles)
            /\ Len(imageFiles) > 0 => sub.uploads = <<imageFiles>>

\* a save in flight after <<x, y>> was cut to <<y>> and two pending files were
\* uploaded, the endpoint answering in the opposite order
C1_Witness ==
    \E sub \in subs :
        /\ SaveInFlight(sub)
        /\ existingImages = <<"y.png">>
        /\ Names(imageFiles) = <<"a.png", "b.jpg">>
        /\ sub.response = <<StoredUrl(imageFiles[2]), StoredUrl(imageFiles[1])>>

\* a step in which the upload request of `sub` is answered, and not by a list of urls
UploadFails(sub) ==
    /\ sub \in subs
    /\ UploadInFlight(sub)
    /\ [sub |-> sub.id, kind |-> "upload"] \notin network'
    /\ \A t \in subs' : t.id = sub.id => t.response = <<>>

\* C2: when the upload of a submission fails, the visible error is the upload
\* failure carrying the collaborator's cause (its response error, else its
\* message), the call has made and makes no create/update call, and it ends.
C2_UploadFailureAborts ==
    [][\A sub \in subs :
          UploadFails(sub) =>
              /\ error'.text = "Failed to upload images: ${cause}"
              /\ error'.args \in {<<"File type not allowed">>, <<"Network Error">>}
              /\ sub.saves = <<>>
              /\ \A t \in subs' : t.id # sub.id
              /\ \A r \in network' : r.sub # sub.id]_vars

\* an upload failed with the endpoint's own error text and nothing is in flight
C2_Witness ==
    /\ error = Msg("Failed to upload images: ${cause}", <<"File type not allowed">>)
    /\ subs = {}
    /\ network = {}
    /\ imageFiles # <<>>

\* C3: a call of handleSubmit made while no file is pending posts no upload,
\* and its one create/update call carries exactly the retained references in
\* their order.
C3_NoPendingNoUpload ==
    \A sub \in subs :
        sub.imageFiles = <<>> =>
            /\ sub.uploads = <<>>
            /\ ~UploadInFlight(sub)
            /\ Len(sub.saves) = 1
            /\ sub.saves[1].data.imageUrls = sub.existingImages
            /\ sub.existingImages = existingImages

\* a save in flight with no pending file and both stored references retained
C3_Witness ==
    \E sub \in subs :
        /\ SaveInFlight(sub)
        /\ imageFiles = <<>>
        /\ sub.saves[1].data.imageUrls = <<"/api/files/x.png", "y.png">>

\* C4: when handleSubmit runs on a form that fails a rule, the step leaves
\* loading and uploadingImages as they were (false), starts no call and no
\* request, and the visible error becomes the failing rule's message.
C4_InvalidFormAborts ==
    [][(handleSubmit /\ (\/ EmptyName(formData) \/ PhoneTooShort(formData)
                         \/ EmptyLocation(formData) \/ InvalidPrice(formData)
                         \/ InvalidTimeRange(formData))) =>
          /\ error' = ValidationError(formData)
          /\ error' # NoError
          /\ ~loading' /\ ~uploadingImages'
          /\ UNCHANGED <<loading, uploadingImages, subs, network, onSuccessCalled>>
          /\ subs' = {} /\ network' = {}]_vars

\* the price rule stopped a submission that had a file pending
C4_Witness ==
    /\ error = Msg("Valid price is required", <<>>)
    /\ imageFiles # <<>>
    /\ ~loading
    /\ subs = {}
    /\ network = {}

\* C5: at most one call of handleSubmit and one request are in flight; while
\* one is, loading is set and no further handleSubmit can start.
C5_OneSubmissionInFlight ==
    /\ Cardinality(subs) <= 1
    /\ Cardinality(network) <= 1
    /\ subs # {} => loading /\ ~ENABLED handleSubmit

\* the save is pending, uploadingImages is already cleared: loading alone
\* keeps the submit button disabled
C5_Witness ==
    \E sub \in subs :
        /\ SaveInFlight(sub)
        /\ sub.uploads # <<>>
        /\ ~uploadingImages
        /\ validateForm(formData)

\* C6: no state has an upload request and a create/update request in flight
\* together, and a call that had files to upload makes its create/update call
\* only once its single upload was answered with the urls.
C6_UploadThenSave ==
    /\ \A r1, r2 \in network : r1.kind = r2.kind
    /\ \A sub \in subs :
          /\ UploadInFlight(sub) => sub.saves = <<>>
          /\ (sub.saves # <<>> /\ sub.imageFiles # <<>>) =>
                /\ Len(sub.uploads) = 1
                /\ ~UploadInFlight(sub)
                /\ Len(sub.response) = Len(sub.imageFiles)

\* the create call of a submission in create mode, sent after its upload
C6_Witness ==
    \E sub \in subs :
        /\ SaveInFlight(sub)
        /\ sub.saves[1].op = "createTurf"
        /\ Len(sub.response) = 1

\* the image family and the size limit as the claims state them
ImageFamily(file) == file.type \in {ImagePng, ImageJpeg}

NotImageFamily(file) == ~ImageFamily(file)

Over10MiB(file) == file.size > 10485760

OversizedImage(file) == ImageFamily(file) /\ Over10MiB(file)

\* C7: when handleImageSelect gets a batch with an image file over 10 MiB, the
\* pending list, the preview list and the reads in flight stay as they were and
\* the error names, in order, every oversized image of the batch.
C7_OversizeRejectsBatch ==
    [][\A files \in Batches :
          ((\E i \in DOMAIN files : OversizedImage(files[i])) /\ handleImageSelect(files)) =>
              /\ UNCHANGED <<imageFiles, imagePreviewUrls, readers>>
              /\ error' = Msg("Some files exceed 10MB limit: ${names}",
                              Names(SelectSeq(files, OversizedImage)))]_vars

\* a batch of two oversized images was turned down while a file was pending
C7_Witness ==
    /\ error = Msg("Some files exceed 10MB limit: ${names}", <<"big.png", "huge.jpg">>)
    /\ Len(imageFiles) = 1

C9_PendingFilesValid ==
    /\ \A i \in DOMAIN imageFiles :
          ImageFamily(imageFiles[i]) /\ ~Over10MiB(imageFiles[i])
    /\ \A sub \in subs : \A k \in DOMAIN sub.uploads : \A i \in DOMAIN sub.uploads[k] :
          ImageFamily(sub.uploads[k][i]) /\ ~Over10MiB(sub.uploads[k][i])

\* a file of exactly 10 MiB is being uploaded
C9_Witness ==
    \E sub \in subs :
        /\ UploadInFlight(sub)
        /\ \E i \in DOMAIN sub.uploads[1] : sub.uploads[1][i].size = 10485760

\* the five rules in the order the claim gives them, and their messages
RuleFails(k, fd) ==
    CASE k = 1 -> EmptyName(fd)
      [] k = 2 -> PhoneTooShort(fd)
      [] k = 3 -> EmptyLocation(fd)
      [] k = 4 -> InvalidPrice(fd)
      [] k = 5 -> InvalidTimeRange(fd)

RuleMessages ==
    << "Turf name is required", "Phone number must be at least 10 digits",
       "Location is required", "Valid price is required",
       "End time must be after start time" >>

\* C10: when handleSubmit runs on a form failing one or more rules, the error
\* shown is the message of the earliest failing rule in the order name, phone,
\* location, price, time range.
C10_FirstFailureWins ==
    [][handleSubmit =>
          \A k \in 1..5 :
              (RuleFails(k, formData) /\ \A j \in 1..(k - 1) : ~RuleFails(j, formData)) =>
                  error' = Msg(RuleMessages[k], <<>>)]_vars

\* the phone message is shown for a form that also fails the three later rules
C10_Witness ==
    /\ error = Msg("Phone number must be at least 10 digits", <<>>)
    /\ EmptyLocation(formData) /\ InvalidPrice(formData) /\ InvalidTimeRange(formData)

\* "parses to a number greater than 0" as the claim words it: a number, and positive
ParsesPositive(s) ==
    LET x == parseFloat(s) IN ~x.nan /\ ~x.neg /\ x.mant > 0

\* the five rules as the claim states them
SatisfiesFiveRules(fd) ==
    /\ Trim(fd.name) # <<>>
    /\ Len(fd.phone) >= 10
    /\ Trim(fd.location) # <<>>
    /\ fd.pricePerSlot # <<>> /\ ParsesPositive(fd.pricePerSlot)
    /\ ~StrGeq(fd.operatingStartTime, fd.operatingEndTime)

\* C11: handleSubmit goes past validateForm (sets loading) for exactly the
\* forms satisfying all five rules; a form that passes the first three rules
\* and whose price is absent or does not parse to a number greater than 0
\* (zero, negative, non-numeric text) gets "Valid price is required"; a form
\* that passes the first four and whose start time is equal to or after its
\* end time gets "End time must be after start time".
C11_ValidateIffRules ==
    [][handleSubmit =>
          LET fd == formData
              firstThree == Trim(fd.name) # <<>> /\ Len(fd.phone) >= 10
                                /\ Trim(fd.location) # <<>>
              priceOk == fd.pricePerSlot # <<>> /\ ParsesPositive(fd.pricePerSlot)
          IN  /\ loading' <=> SatisfiesFiveRules(fd)
              /\ (firstThree /\ ~priceOk) => error' = Msg("Valid price is required", <<>>)
              /\ (firstThree /\ priceOk
                    /\ StrGeq(fd.operatingStartTime, fd.operatingEndTime)) =>
                    error' = Msg("End time must be after start time", <<>>)]_vars

\* C12: onSuccess is called only in the step in which the create/update call
\* of a submission resolves; a handleSubmit stopped by validateForm, a failed
\* upload and a rejected create/update call leave it uncalled; a rejected
\* create/update call ends the submission with its message (or the fallback)
\* as the error and sends nothing more, so nothing is asked of the endpoint
\* about the files the upload had stored.
C12_SuccessOnlyAfterSave ==
    [][/\ onSuccessCalled' # onSuccessCalled =>
             /\ \E sub \in subs :
                   /\ SaveInFlight(sub) /\ Len(sub.saves) = 1 /\ ~UploadInFlight(sub)
                   /\ SaveResolved(sub)
             /\ ~(handleSubmit /\ ~validateForm(formData))
             /\ \A sub \in subs :
                   /\ ~UploadFails(sub)
                   /\ \A err \in SaveErrors : ~SaveRejected(sub, err)
       /\ \A sub \in subs : \A err \in SaveErrors :
             (SaveInFlight(sub) /\ SaveRejected(sub, err)) =>
                 /\ UNCHANGED onSuccessCalled
                 /\ error' = Msg(IF err.message = ""
                                 THEN "Failed to save turf. Please try again."
                                 ELSE err.message, <<>>)
                 /\ subs' = {} /\ network' = {}
                 /\ UNCHANGED <<imageFiles, existingImages>>]_vars

\* the create/update call that followed a successful upload was rejected
\* without a message: the fallback text is shown and onSuccess was not called
C12_Witness ==
    /\ error = Msg("Failed to save turf. Please try again.", <<>>)
    /\ ~onSuccessCalled
    /\ imageFiles # <<>>
    /\ subs = {}
    /\ ~loading

\* C13: whenever at least one image is staged (and every preview read has
\* completed, so that each pending file has its cell), exactly one cell of the
\* grid is marked Primary and it is the first cell, showing element 0 of
\* retained ++ pending: the first retained reference when one is retained, the
\* first pending file otherwise.
C13_PrimaryIsFirstStaged ==
    (mounted /\ totalImages > 0 /\ readers = EmptyBag) =>
        /\ {i \in DOMAIN ImageGrid : ImageGrid[i].badge = "Primary"} = {1}
        /\ ImageGrid[1].index = 0
        /\ ImageGrid[1].list = IF existingImages # <<>> THEN "existing" ELSE "new"

\* C14: the effect that initialises the form from a turf with N stored image
\* references leaves N staged images, all retained and none pending, the
\* retained list being the turf's references in their order (position 0 the
\* first of them); without a turf the staged set is empty, as it is in the
\* first render.
C14_InitFromEntity ==
    [][TurfEffect =>
          /\ totalImages = 0
          /\ imageFiles' = <<>>
          /\ IF turf.null
             THEN existingImages' = <<>> /\ totalImages' = 0
             ELSE /\ existingImages' = turf.imageUrls
                  /\ totalImages' = Len(turf.imageUrls)
                  /\ \A i \in DOMAIN turf.imageUrls : existingImages'[i] = turf.imageUrls[i]]_vars

\* the form of a turf with two stored references, as its effect left it
C14_Witness ==
    /\ mounted /\ ~turf.null
    /\ Len(turf.imageUrls) = 2
    /\ existingImages = turf.imageUrls
    /\ existingImages[1] = "/api/files/x.png"
    /\ imageFiles = <<>>
    /\ totalImages = 2

\* the host the form is configured with: API_URL without its path /api
ConfiguredHost ==
    IF Len(API_URL) >= 4 /\ SubSeq(API_URL, Len(API_URL) - 3, Len(API_URL)) = ApiPrefix
    THEN SubSeq(API_URL, 1, Len(API_URL) - 4)
    ELSE API_URL

\* C15: the src getImageUrl gives a non-empty stored reference is the
\* reference itself when it starts with http:// or https://, the configured
\* host followed by the reference when it starts with /api, and the
\* configured host followed by /api/files/ and the reference otherwise.
C15_ResolvesByThreeRules ==
    (imgSrc.rendered /\ imgSrc.ref # <<>>) =>
        LET ref == imgSrc.ref
        IN  imgSrc.src =
              [null |-> FALSE,
               url |-> IF StartsWith(ref, Http) \/ StartsWith(ref, Https) THEN ref
                       ELSE IF StartsWith(ref, ApiPrefix) THEN ConfiguredHost \o ref
                       ELSE ConfiguredHost \o ApiFiles \o ref]

\* C16: in every state in which no preview read is outstanding, the preview
\* list is as long as the pending list and the preview at each index is the
\* data url read from the pending file at that index, so that the remove
\* button of cell i drops a file together with its own preview.
C16_PreviewsAligned ==
    readers = EmptyBag =>
        /\ Len(imagePreviewUrls) = Len(imageFiles)
        /\ \A i \in DOMAIN imageFiles : imagePreviewUrls[i] = DataUrl(imageFiles[i])

\* C17: the step in which a submission fails, at its upload or at its
\* create/update call, changes neither formData nor the retained list nor the
\* pending list, and the two lists are then the ones the call started with;
\* while a call is in flight the lists do not change at all and formData
\* changes only when the user edits a field; after the failure the same
\* staged set can be submitted again.
C17_FailureKeepsStagedSet ==
    [][/\ \A sub \in subs :
             (UploadFails(sub) \/ \E err \in SaveErrors : SaveRejected(sub, err)) =>
                 /\ UNCHANGED <<formData, existingImages, imageFiles>>
                 /\ existingImages' = sub.existingImages
                 /\ imageFiles' = sub.imageFiles
                 /\ ~loading' /\ ~uploadingImages'
       /\ subs # {} =>
             /\ UNCHANGED <<existingImages, imageFiles>>
             /\ formData' # formData =>
                   \E field \in FieldNames : \E value \in FieldValues[field] :
                       handleChange(field, value)]_vars

\* the create/update call failed after two files were uploaded: both are
\* still pending, the retained reference is still there and the submit
\* button is enabled again
C17_Witness ==
    /\ error = Msg("Request failed with status code 500", <<>>)
    /\ subs = {}
    /\ Names(imageFiles) = <<"a.png", "b.jpg">>
    /\ existingImages = <<"y.png">>
    /\ ~ControlsDisabled
    /\ validateForm(formData)

\* C18: with every request answered, loading does not stay set and
\* uploadingImages does not stay set; the step that answers an upload leaves
\* uploadingImages false and the step that ends a call of handleSubmit leaves
\* loading false.
C18_BusyFlagsReleased ==
    /\ loading ~> ~loading
    /\ uploadingImages ~> ~uploadingImages
    /\ [][\A sub \in subs :
             /\ (UploadInFlight(sub) /\ [sub |-> sub.id, kind |-> "upload"] \notin network')
                   => ~uploadingImages'
             /\ (\A t \in subs' : t.id # sub.id) => ~loading']_vars

\* a submission with a file to upload has succeeded and both flags are down
C18_Witness ==
    /\ onSuccessCalled
    /\ imageFiles # <<>>
    /\ ~loading /\ ~uploadingImages
    /\ subs = {} /\ network = {}

\* C19: a call of handleSubmit made while no earlier one has succeeded (each
\* earlier attempt failed at its upload or at its create/update call) posts
\* no file that the upload endpoint has already stored: no pending file is
\* uploaded a second time by a resubmission.
C19_NoFileUploadedTwice ==
    [][~onSuccessCalled =>
          \A sub \in subs' \ subs : \A k \in DOMAIN sub.uploads :
              \A i \in DOMAIN sub.uploads[k] : sub.uploads[k][i] \notin stored]_vars

====
